---- MODULE Spec2Model ----
(***************************************************************************)
(* A model of l3tc's io.c: the ring buffers and their drain/fill protocol, *)
(* the framer that slices the byte stream into L3 packets, the socket      *)
(* life cycle and the peer reconciler.                                     *)
(*                                                                         *)
(* C buffers are sequences of bytes (0..255); C offsets are 0-based, so    *)
(* byte `off` of a buffer b is b[off + 1].  A call that never returns is   *)
(* recorded as "hung", a failed assertion or a fault as "crashed".         *)
(***************************************************************************)
EXTENDS Integers, Sequences, FiniteSets, TLC

(* ------------------------------ bounds -------------------------------- *)
\* CONN_RING_SZ (128 KiB) and TUN_RING_SZ (4 MiB), scaled down
ConnRingSz == 43
TunRingSz == 43
\* longest packet the tun hands over
MaxPktLen == 22
\* bytes the peer's socket accepts in all before send reports an error
MaxWire == 2
\* cap of the drop counter
MaxDrops == 2
\* the highest fd the process can get
MaxFd == 7
\* reloads an operator asks for while io() runs
MaxReloads == 1

(* ------------------------- program constants -------------------------- *)
CONN_IO_OK == 0
CONN_IO_OK_EXHAUSTED == 1
CONN_KILL == -1
CONN_UNKNOWN_ERR == -2
CONN_IO_OK_NOT_ENOUGH_SPACE == -3
\* read_tun_and_xmit asserts an IPv4 packet is longer than its 20 byte header
IPV4_HDR_LEN == 20

(* ------------------------------ helpers ------------------------------- *)
Min(a, b) == IF a < b THEN a ELSE b

\* the n bytes at offset off of buffer b
Bytes(b, off, n) == SubSeq(b, off + 1, off + n)

\* memcpy(dst + off, src, n)
memcpy(dst, off, src, n) ==
    [i \in 1..Len(dst) |-> IF i > off /\ i <= off + n THEN src[i - off] ELSE dst[i]]

\* a buffer with its first n bytes dropped (ptr += n)
Advance(b, n) == SubSeq(b, n + 1, Len(b))

\* ntohs on a little-endian or big-endian host
ntohs(le, v) == IF le THEN (v % 256) * 256 + (v \div 256) ELSE v

\* *(uint16_t *) p, where the two bytes at p are x0, x1
host_u16(le, x0, x1) == IF le THEN x1 * 256 + x0 ELSE x0 * 256 + x1

(* ---------------------------- ring buffer ----------------------------- *)
init_backlog_ring(sz) ==
    [buff |-> [i \in 1..sz |-> 0], sz |-> sz, start |-> 0, end |-> 0, wraped |-> FALSE]

ring_empty(r) == (~r.wraped) /\ (r.start = r.end)

\* the occupied bytes of a ring, in order (what a correct consumer would read)
Occupied(r) ==
    IF r.wraped THEN Bytes(r.buff, r.start, r.sz - r.start) \o Bytes(r.buff, 0, r.end)
    ELSE Bytes(r.buff, r.start, r.end - r.start)

(* ------------------------------ handlers ------------------------------ *)
(* A handler gets the environment and handler context k, the ring's        *)
(* buffer rb, the offset and length of the region it is handed, the value  *)
(* of *tracker and the additional length; it answers with its return code, *)
(* the new *tracker, the buffer and k.                                     *)

\* `start += sent` advances the local pointer, not *start
send_bl_batch(k, rb, off, len, trk, addl) ==
    IF k.room > 0
    THEN LET sent == Min(len, k.room) IN
         [ret |-> CONN_IO_OK, trk |-> trk, buff |-> rb,
          k |-> [k EXCEPT !.wire = @ \o Bytes(rb, off, sent), !.room = @ - sent]]
    ELSE [ret |-> IF k.snd_err = "EAGAIN" THEN CONN_IO_OK_EXHAUSTED
                  ELSE IF k.snd_err \in {"ECONNRESET", "ENOTCONN", "EPIPE"} THEN CONN_KILL
                  ELSE CONN_UNKNOWN_ERR,
          trk |-> trk, buff |-> rb, k |-> k]

\* `end += rcvd` advances the local pointer, not *end
recv_batch(k, rb, off, max_sz, trk, addl) ==
    IF Len(k.rcv) > 0 /\ max_sz > 0
    THEN LET rcvd == Min(max_sz, Len(k.rcv)) IN
         [ret |-> CONN_IO_OK, trk |-> trk, buff |-> memcpy(rb, off, k.rcv, rcvd),
          k |-> [k EXCEPT !.rcv = Advance(@, rcvd)]]
    ELSE [ret |-> IF max_sz = 0 \/ k.rcv_end = "EOF" THEN CONN_KILL
                  ELSE IF k.rcv_end = "EAGAIN" THEN CONN_IO_OK_EXHAUSTED
                  ELSE IF k.rcv_end \in {"ECONNREFUSED", "ENOTCONN"} THEN CONN_KILL
                  ELSE CONN_UNKNOWN_ERR,
          trk |-> trk, buff |-> rb, k |-> k]

read_from_tun_buff(k, rb, off, capacity, trk, additional_capacity) ==
    LET pkt == k.pkt
        available_content == pkt.len - pkt.already_written
        to_write == IF available_content > capacity THEN capacity ELSE available_content
    IN  IF pkt.already_written = 0 /\ pkt.len > to_write + additional_capacity
        THEN [ret |-> CONN_IO_OK_NOT_ENOUGH_SPACE, trk |-> trk, buff |-> rb, k |-> k]
        ELSE [ret |-> IF pkt.already_written + to_write = pkt.len
                      THEN CONN_IO_OK_EXHAUSTED ELSE CONN_IO_OK,
              trk |-> trk + to_write,
              buff |-> memcpy(rb, off, Advance(pkt.buff, pkt.already_written), to_write),
              k |-> [k EXCEPT !.pkt.already_written = @ + to_write]]

\* one source span played into the target: [write_sz, buff]
playback_tun_write_single_src_buf(rb, off, max_playback_len, src_buf, src_len) ==
    LET write_sz == IF max_playback_len >= src_len THEN src_len ELSE max_playback_len
    IN  [write_sz |-> write_sz,
         buff |-> IF write_sz > 0 THEN memcpy(rb, off, src_buf, write_sz) ELSE rb]

\* b->b1 and b->b2 are never advanced, nor is the target between the two spans
playback_tun_write_buf(k, rb, off, max_playback_len, trk, promised_future_playback_len) ==
    LET b == k.twb IN
    IF b.len1 + b.len2 > max_playback_len + promised_future_playback_len
    THEN [ret |-> CONN_IO_OK_EXHAUSTED, trk |-> trk, buff |-> rb, k |-> k]
    ELSE
      LET w1 == IF b.len1 > 0
                THEN playback_tun_write_single_src_buf(rb, off, max_playback_len, b.b1, b.len1)
                ELSE [write_sz |-> 0, buff |-> rb]
          len1 == b.len1 - w1.write_sz
          max1 == max_playback_len - w1.write_sz
          trk1 == trk + w1.write_sz
      IN  IF len1 > 0
          THEN [ret |-> CONN_IO_OK, trk |-> trk1, buff |-> w1.buff,
                k |-> [k EXCEPT !.twb.len1 = len1]]
          ELSE
            LET w2 == IF b.len2 > 0
                      THEN playback_tun_write_single_src_buf(w1.buff, off, max1, b.b2, b.len2)
                      ELSE [write_sz |-> 0, buff |-> w1.buff]
                len2 == b.len2 - w2.write_sz
            IN  [ret |-> IF len2 > 0 THEN CONN_IO_OK ELSE CONN_IO_OK_EXHAUSTED,
                 trk |-> trk1 + w2.write_sz, buff |-> w2.buff,
                 k |-> [k EXCEPT !.twb.len1 = len1, !.twb.len2 = len2]]

\* F applied to the value of e
Bind(e, F(_)) == CHOOSE y \in {F(x) : x \in {e}} : TRUE

\* b1 is never NULL at a call, so the NULL test at the top never answers 0
parse_l3_packet_len(le, b1, b2) ==
    LET len1 == Len(b1)
        len2 == Len(b2)
    IN  IF len1 >= 4 THEN ntohs(le, host_u16(le, b1[3], b1[4]))
        ELSE IF len1 = 3 /\ len2 >= 1 THEN ntohs(le, b1[3] * 256 + b2[1])
        ELSE IF len1 <= 2 /\ len1 + len2 >= 4 THEN ntohs(le, host_u16(le, b2[1], b2[2]))
        ELSE 0

\* w_buff starts with room for one packet of MaxPktLen bytes
\* (INITIAL_TUN_PKT_BUFF_SZ, scaled down) and realloc has no more to give
expand_tun_wbuff_if_necessary(wbuff, additional_space_required) ==
    IF additional_space_required > MaxPktLen - wbuff.len THEN -1 ELSE 0

\* one pass through the do-while of write_to_tun on W = [k, buff, ret, pkt_len]:
\* buff is what is left of the region, k.w_buff the packet being assembled
write_to_tun_body(W) ==
    LET k == W.k
        wbuff == k.w_buff
        len == Len(W.buff)
        failed == IF k.tun_err = "EAGAIN" THEN CONN_IO_OK_EXHAUSTED ELSE CONN_UNKNOWN_ERR
    IN  IF wbuff.current_pkt_len = 0
        THEN LET pkt_len == parse_l3_packet_len(k.le, W.buff, <<>>) IN
             IF pkt_len = 0 THEN [W EXCEPT !.pkt_len = 0]
             ELSE IF pkt_len <= len
             THEN IF k.tun_room > 0
                  THEN [k |-> [k EXCEPT !.tun_out = Append(@, SubSeq(W.buff, 1, pkt_len)),
                                        !.tun_room = @ - 1],
                        buff |-> Advance(W.buff, pkt_len), ret |-> W.ret, pkt_len |-> pkt_len]
                  ELSE [W EXCEPT !.ret = failed, !.pkt_len = pkt_len]
             ELSE IF expand_tun_wbuff_if_necessary(wbuff, pkt_len) # 0
             THEN [W EXCEPT !.ret = CONN_UNKNOWN_ERR, !.pkt_len = pkt_len]
             ELSE [k |-> [k EXCEPT !.w_buff = [buff |-> W.buff, len |-> wbuff.len + len,
                                               current_pkt_len |-> pkt_len]],
                   buff |-> <<>>, ret |-> W.ret, pkt_len |-> pkt_len]
        ELSE LET deficit == wbuff.current_pkt_len - wbuff.len IN
             IF len >= deficit
             THEN IF k.tun_room > 0
                  THEN [W EXCEPT !.k.tun_out = Append(@, Bytes(wbuff.buff, 0, wbuff.len)
                                                          \o SubSeq(W.buff, 1, deficit)),
                                 !.k.tun_room = @ - 1,
                                 !.k.w_buff.len = 0, !.k.w_buff.current_pkt_len = 0,
                                 !.buff = Advance(@, deficit)]
                  ELSE [W EXCEPT !.ret = failed]
             ELSE [W EXCEPT !.k.w_buff.buff = Bytes(@, 0, wbuff.len) \o W.buff,
                            !.k.w_buff.len = @ + len, !.buff = <<>>]

RECURSIVE write_to_tun_loop(_)
write_to_tun_loop(W) ==
    Bind(write_to_tun_body(W),
         LAMBDA W1 : IF W1.ret = CONN_IO_OK /\ Len(W1.buff) > 0 /\ W1.pkt_len > 0
                     THEN write_to_tun_loop(W1) ELSE W1)

\* *start is never advanced; pkt_len is read uninitialized by the loop test
\* when the first pass completes a packet: k.stale stands for what it holds
write_to_tun(k, rb, off, len, trk, additional_len) ==
    Bind(write_to_tun_loop([k |-> k, buff |-> Bytes(rb, off, len), ret |-> CONN_IO_OK,
                            pkt_len |-> k.stale]),
         LAMBDA W : [ret |-> W.ret, trk |-> trk, buff |-> rb, k |-> W.k])

\* the call through the io_handler_fn_t pointer
IoHdlr(h, k, rb, off, len, trk, addl) ==
    CASE h = "send_bl_batch" -> send_bl_batch(k, rb, off, len, trk, addl)
      [] h = "recv_batch" -> recv_batch(k, rb, off, len, trk, addl)
      [] h = "read_from_tun_buff" -> read_from_tun_buff(k, rb, off, len, trk, addl)
      [] h = "playback_tun_write_buf" -> playback_tun_write_buf(k, rb, off, len, trk, addl)
      [] h = "write_to_tun" -> write_to_tun(k, rb, off, len, trk, addl)

(* ------------------------- fill_ring, drain_ring ---------------------- *)
(* The loop state S is [r, ret, full, k].  A loop whose body leaves S as   *)
(* it found it and whose condition still holds never ends: k.hung.         *)
RECURSIVE fill_loop(_, _, _)

fill_ring(r, io_hdlr, data_pusher, k) ==
    fill_loop(io_hdlr, data_pusher, [r |-> r, ret |-> CONN_IO_OK, full |-> FALSE, k |-> k])

(* ------------------------------- framer ------------------------------- *)
\* push_pkt_to_tun_backlog_ring: [n, full, k]
push_pkt_to_tun_backlog_ring(k, b1, b2, full) ==
    Bind(fill_ring(k.tun_tx, "playback_tun_write_buf", "NULL",
                   [k EXCEPT !.twb = [b1 |-> b1, len1 |-> Len(b1), b2 |-> b2, len2 |-> Len(b2)]]),
         LAMBDA S :
           LET k1 == [S.k EXCEPT !.tun_tx = S.r]
               total == Len(b1) + Len(b2)
               remaining == k1.twb.len1 + k1.twb.len2
           IN  IF k1.hung THEN [n |-> 0, full |-> full, k |-> k1]
               ELSE IF remaining # 0
               THEN [n |-> 0, full |-> TRUE,
                     k |-> IF remaining # total /\ ~k1.ndebug
                           THEN [k1 EXCEPT !.crashed = TRUE] ELSE k1]
               ELSE [n |-> total, full |-> full, k |-> k1])

\* push_pkt_to_tun_or_ring trying the writev whatever the backlog holds
push_pkt_to_tun_or_ring_writev_first(k, b1, b2, full) ==
    IF k.tun_room > 0
    THEN [n |-> Len(b1) + Len(b2), full |-> full,
          k |-> [k EXCEPT !.tun_out = Append(@, b1 \o b2), !.tun_room = @ - 1]]
    ELSE IF k.tun_err = "EAGAIN"
         THEN push_pkt_to_tun_backlog_ring(k, b1, b2, full)
         ELSE [n |-> 0, full |-> full, k |-> k]

\* the tun takes k.tun_room more writes, then fails with k.tun_err
push_pkt_to_tun_or_ring(k, b1, b2, full) ==
    IF ring_empty(k.tun_tx)
    THEN IF k.tun_room > 0
         THEN [n |-> Len(b1) + Len(b2), full |-> full,
               k |-> [k EXCEPT !.tun_out = Append(@, b1 \o b2), !.tun_room = @ - 1]]
         ELSE IF k.tun_err = "EAGAIN"
              THEN push_pkt_to_tun_backlog_ring(k, b1, b2, full)
              ELSE [n |-> 0, full |-> full, k |-> k]
    ELSE push_pkt_to_tun_backlog_ring(k, b1, b2, full)

\* the do-while of push_to_tun_ipv4 on T = [k, b1, b2, overall_pushed, full]
RECURSIVE push_to_tun_ipv4_loop(_)
push_to_tun_ipv4_loop(T) ==
    LET pkt_len == parse_l3_packet_len(T.k.le, T.b1, T.b2)
        len1 == Len(T.b1)
        len2 == Len(T.b2)
        buf2_to_be_pushed == pkt_len - len1
        asserted == len1 >= pkt_len \/ len2 - buf2_to_be_pushed > 0 \/ T.k.ndebug
    IN  IF pkt_len = 0 \/ len1 + len2 < pkt_len THEN T
        ELSE IF ~asserted THEN [T EXCEPT !.k.crashed = TRUE]
        ELSE Bind(IF len1 >= pkt_len
                  THEN push_pkt_to_tun_or_ring(T.k, SubSeq(T.b1, 1, pkt_len), <<>>, T.full)
                  ELSE push_pkt_to_tun_or_ring(T.k, T.b1, SubSeq(T.b2, 1, buf2_to_be_pushed), T.full),
                  LAMBDA res :
                    Bind([k |-> res.k,
                          b1 |-> IF len1 >= pkt_len THEN Advance(T.b1, res.n)
                                 ELSE IF res.n > 0 THEN <<>> ELSE T.b1,
                          b2 |-> IF len1 < pkt_len /\ res.n > 0
                                 THEN Advance(T.b2, buf2_to_be_pushed) ELSE T.b2,
                          overall_pushed |-> T.overall_pushed + res.n,
                          full |-> res.full],
                         LAMBDA T1 :
                           IF T1.k.crashed \/ T1.k.hung \/ T1.full THEN T1
                           ELSE IF T1 = T THEN [T1 EXCEPT !.k.hung = TRUE]
                           ELSE push_to_tun_ipv4_loop(T1)))

\* [moved, k]
push_to_tun_ipv4(k, b1, b2) ==
    IF Len(b1) = 0 /\ ~k.ndebug THEN [moved |-> 0, k |-> [k EXCEPT !.crashed = TRUE]]
    ELSE Bind(push_to_tun_ipv4_loop([k |-> k, b1 |-> b1, b2 |-> b2,
                                     overall_pushed |-> 0, full |-> FALSE]),
              LAMBDA T : [moved |-> T.overall_pushed, k |-> T.k])

push_to_tun_ipv6(k, b1, b2) == [moved |-> 0, k |-> k]

\* with nothing to push the assertion fails, and without it *b2 reads NULL
push_to_tun(k, b1, b2) ==
    IF Len(b1) + Len(b2) = 0 THEN [moved |-> 0, k |-> [k EXCEPT !.crashed = TRUE]]
    ELSE LET octate_1 == IF Len(b1) > 0 THEN b1[1] ELSE b2[1]
             ip_v == octate_1 \div 16
             f1 == IF Len(b1) > 0 THEN b1 ELSE b2
             f2 == IF Len(b1) > 0 THEN b2 ELSE <<>>
         IN  IF ip_v = 4 THEN push_to_tun_ipv4(k, f1, f2)
             ELSE IF ip_v = 6 THEN push_to_tun_ipv6(k, f1, f2)
             ELSE [moved |-> 0, k |-> k]

\* `written` is never advanced by send_bl_batch, so nothing counts as moved
write_passthru_to_conn(k, b1, b2) ==
    LET written == 0
        k1 == IF Len(b1) > 0 THEN send_bl_batch(k, b1, 0, Len(b1), written, 0).k ELSE k
        k2 == IF written = Len(b1) /\ Len(b2) > 0
              THEN send_bl_batch(k1, b2, 0, Len(b2), written, 0).k ELSE k1
    IN  [moved |-> written, k |-> k2]

\* the call through the data_push_fn_t pointer
DataPusher(p, k, b1, b2) ==
    CASE p = "push_to_tun" -> push_to_tun(k, b1, b2)
      [] p = "write_passthru_to_conn" -> write_passthru_to_conn(k, b1, b2)

\* the second half of fill_ring's body: the pusher and the advance of start,
\* after the handler answered hr on ring r with full flag full1
fill_push(data_pusher, r, full1, hr) ==
    LET r1 == [r EXCEPT !.buff = hr.buff, !.end = hr.trk]
        len1 == IF r1.wraped THEN r1.sz - r1.start ELSE r1.end - r1.start
        len2 == IF r1.wraped THEN r1.end ELSE 0
    IN  IF data_pusher = "NULL"
        THEN [r |-> r1, ret |-> hr.ret, full |-> full1, k |-> hr.k]
        ELSE Bind(IF r1.wraped /\ len1 = 0
                  THEN DataPusher(data_pusher, hr.k, Bytes(r1.buff, 0, len2), <<>>)
                  ELSE DataPusher(data_pusher, hr.k, Bytes(r1.buff, r1.start, len1),
                                  Bytes(r1.buff, 0, len2)),
                  LAMBDA pr :
                    LET moved == pr.moved IN
                    [r |-> IF moved > 0
                           THEN IF r1.wraped /\ moved > len1
                                THEN [r1 EXCEPT !.start = moved - len1, !.wraped = FALSE]
                                ELSE [r1 EXCEPT !.start = @ + moved]
                           ELSE r1,
                     ret |-> hr.ret,
                     full |-> IF moved > 0 THEN FALSE ELSE full1,
                     k |-> pr.k])

\* fill_ring's body with the wrap step leaving out `r->end = 0`
fill_body_without_end_reset(io_hdlr, data_pusher, S) ==
    LET r == S.r IN
    IF (~r.wraped) /\ r.sz = r.end
    THEN [S EXCEPT !.r = [r EXCEPT !.wraped = TRUE]]
    ELSE Bind(IF r.wraped
              THEN IoHdlr(io_hdlr, S.k, r.buff, r.end, r.start - r.end, r.end, 0)
              ELSE IoHdlr(io_hdlr, S.k, r.buff, r.end, r.sz - r.end, r.end, r.start),
              LAMBDA hr :
                fill_push(data_pusher, r, IF r.wraped /\ r.start = r.end THEN TRUE ELSE S.full, hr))

\* one pass through the body of fill_ring's do-while
fill_body(io_hdlr, data_pusher, S) ==
    LET r == S.r IN
    IF (~r.wraped) /\ r.sz = r.end
    THEN [S EXCEPT !.r = [r EXCEPT !.end = 0, !.wraped = TRUE]]
    ELSE Bind(IF r.wraped
              THEN IoHdlr(io_hdlr, S.k, r.buff, r.end, r.start - r.end, r.end, 0)
              ELSE IoHdlr(io_hdlr, S.k, r.buff, r.end, r.sz - r.end, r.end, r.start),
              LAMBDA hr :
                fill_push(data_pusher, r, IF r.wraped /\ r.start = r.end THEN TRUE ELSE S.full, hr))

fill_loop(io_hdlr, data_pusher, S) ==
    Bind(fill_body(io_hdlr, data_pusher, S),
         LAMBDA S1 :
           IF S1.k.crashed \/ S1.k.hung THEN S1
           ELSE IF S1.ret = CONN_IO_OK \/ S1.full
                THEN IF S1 = S THEN [S1 EXCEPT !.k.hung = TRUE]
                     ELSE fill_loop(io_hdlr, data_pusher, S1)
                ELSE S1)

\* one pass through the body of drain_ring's do-while; brk is the `break`
drain_body(io_hdlr, S) ==
    LET r == S.r IN
    IF r.wraped /\ r.sz = r.start
    THEN [S EXCEPT !.r = [r EXCEPT !.start = 0, !.wraped = FALSE]]
    ELSE IF (~r.wraped) /\ r.end = r.start
    THEN [S EXCEPT !.brk = TRUE]
    ELSE Bind(IF r.wraped
              THEN IoHdlr(io_hdlr, S.k, r.buff, r.start, r.sz - r.start, r.start, r.end)
              ELSE IoHdlr(io_hdlr, S.k, r.buff, r.start, r.end - r.start, r.start, 0),
              LAMBDA hr :
                [r |-> [r EXCEPT !.buff = hr.buff, !.start = hr.trk], ret |-> hr.ret,
                 brk |-> FALSE, k |-> hr.k])

RECURSIVE drain_loop(_, _)
drain_loop(io_hdlr, S) ==
    Bind(drain_body(io_hdlr, S),
         LAMBDA S1 :
           IF S1.brk \/ S1.k.crashed \/ S1.k.hung THEN S1
           ELSE IF S1.ret = CONN_IO_OK
                THEN IF S1 = S THEN [S1 EXCEPT !.k.hung = TRUE]
                     ELSE drain_loop(io_hdlr, S1)
                ELSE S1)

drain_ring(r, io_hdlr, k) ==
    drain_loop(io_hdlr, [r |-> r, ret |-> CONN_IO_OK, brk |-> FALSE, k |-> k])

\* write_to_conn on a connection whose tx ring is tx (conn_null: no connection
\* was found for the packet); c is ctx->c_world_tx: [tx, c, k]
write_to_conn(c, tx_ring, conn_null, pkt_buff, k) ==
    LET dropped == [c EXCEPT !.drop_p = @ + 1, !.drop_b = @ + Len(pkt_buff)] IN
    IF conn_null THEN [tx |-> tx_ring, c |-> dropped, k |-> k]
    ELSE Bind(fill_ring(tx_ring, "read_from_tun_buff", "write_passthru_to_conn",
                        [k EXCEPT !.pkt = [buff |-> pkt_buff, len |-> Len(pkt_buff),
                                           already_written |-> 0]]),
              LAMBDA S :
                IF S.k.hung \/ S.k.crashed THEN [tx |-> S.r, c |-> c, k |-> S.k]
                ELSE IF S.ret = CONN_IO_OK_NOT_ENOUGH_SPACE
                THEN [tx |-> S.r, c |-> dropped, k |-> S.k]
                ELSE [tx |-> S.r, c |-> c,
                      k |-> IF S.ret # CONN_IO_OK_EXHAUSTED /\ ~S.k.ndebug
                            THEN [S.k EXCEPT !.crashed = TRUE] ELSE S.k])

(* ------------------------------ addresses ----------------------------- *)
IPv4_ADDR_LEN == 4
IPv6_ADDR_LEN == 16
MAX_NW_ADDR_LEN == IF IPv6_ADDR_LEN > IPv4_ADDR_LEN THEN IPv6_ADDR_LEN ELSE IPv4_ADDR_LEN
USING_IPV4 == 1
USING_IPV6 == 2

Zeros(n) == [i \in 1..n |-> 0]

\* memset(nw_addr, 0, MAX_NW_ADDR_LEN) and memcpy(nw_addr, client_addr, <length of the family>)
nw_addr_of(client_addr) == client_addr \o Zeros(MAX_NW_ADDR_LEN - Len(client_addr))

\* memcmp on the first n bytes: negative, 0 or positive
RECURSIVE memcmp(_, _, _)
memcmp(a, b, n) ==
    IF n = 0 THEN 0
    ELSE IF a[1] # b[1] THEN a[1] - b[1]
    ELSE memcmp(Tail(a), Tail(b), n - 1)

\* a | b on the two using_af bits
bit_or(a, b) ==
    (IF a % 2 = 1 \/ b % 2 = 1 THEN 1 ELSE 0) + 2 * (IF a \div 2 = 1 \/ b \div 2 = 1 THEN 1 ELSE 0)

(* --------------------- the byte-array hash table ---------------------- *)
(* ba_htab is an associative map with fixed-width byte-string keys: a      *)
(* function from its keys.  batab_remove answers 0 when it removed the     *)
(* key, as the callers' assertions expect, and non-zero when the key is    *)
(* not there.                                                              *)
batab_init == [key \in {} |-> 0]

batab_has(tab, key) == key \in DOMAIN tab

batab_put(tab, key, value) ==
    [k \in (DOMAIN tab) \cup {key} |-> IF k = key THEN value ELSE tab[k]]

batab_remove(tab, key) ==
    [ret |-> IF key \in DOMAIN tab THEN 0 ELSE -1,
     tab |-> [k \in (DOMAIN tab) \ {key} |-> tab[k]]]

\* batab_foreach_do visits the keys in some order of the table's: ascending here
RECURSIVE batab_foreach_do(_)
batab_foreach_do(keys) ==
    IF keys = {} THEN <<>>
    ELSE LET k == CHOOSE x \in keys : \A y \in keys : memcmp(x, y, MAX_NW_ADDR_LEN) <= 0
         IN  <<k>> \o batab_foreach_do(keys \ {k})

(* --------------------------- socket life cycle ------------------------ *)
(* The operations thread K = [ctx, next_fd, destroyed, crashed, hung,      *)
(* ndebug, ub]: the io_ctx_t, the fd numbering, the log of destroy_sock    *)
(* calls, whether the process died or got stuck, the build, and ub, the    *)
(* outcome ("crash" or "survive") of the undefined behaviour met on the way. *)

\* LIST_INSERT_HEAD / LIST_REMOVE on a list kept as a sequence, head first
LIST_INSERT_HEAD(list, elm) == <<elm>> \o list

IsLinked(list, elm) == \E i \in 1..Len(list) : list[i] = elm

LIST_REMOVE(list, elm) ==
    LET i == CHOOSE j \in 1..Len(list) : list[j] = elm /\ \A h \in 1..(j - 1) : list[h] # elm
    IN  SubSeq(list, 1, i - 1) \o SubSeq(list, i + 1, Len(list))

\* the io_sock_t calloc leaves, with fd, ctx and typ set
new_sock(fd, typ) ==
    [fd |-> fd, typ |-> typ, peer |-> Zeros(MAX_NW_ADDR_LEN), af |-> "AF_UNSPEC",
     outbound |-> FALSE, rx |-> <<>>, tx |-> <<>>]

init_conn_sock(sock, addr, af) ==
    [sock EXCEPT !.peer = addr, !.af = af,
                 !.tx = init_backlog_ring(ConnRingSz), !.rx = init_backlog_ring(ConnRingSz)]

init_out_conn_sock(sock, peer) ==
    [init_conn_sock(sock, peer.addr, peer.ai_family) EXCEPT !.outbound = TRUE]

\* with assertions the removal from live_sockets runs and must answer 0;
\* under NDEBUG the whole assert, the removal included, is compiled out
destroy_conn_sock_data(K, sock) ==
    IF sock.fd < 0 THEN K
    ELSE
      LET rm == batab_remove(K.ctx.live_sockets, sock.peer)
          K1 == IF K.ndebug THEN K
                ELSE IF rm.ret # 0 THEN [K EXCEPT !.crashed = TRUE]
                ELSE [K EXCEPT !.ctx.live_sockets = rm.tab]
      IN  IF K1.crashed \/ ~sock.outbound THEN K1
          ELSE IF ~batab_has(K1.ctx.passive_peers, sock.peer)
          THEN [K1 EXCEPT !.crashed = TRUE]
          ELSE [K1 EXCEPT !.ctx.disconnected_passive_peers = LIST_INSERT_HEAD(@, sock.peer)]

\* free(&sock->d.tun.w_buff.buff) frees an address inside the socket object
destroy_tun_sock_data(K, sock) ==
    IF K.ub = "crash" THEN [K EXCEPT !.crashed = TRUE] ELSE K

\* LIST_REMOVE of a socket add_sock never linked writes through its NULL le_prev
destroy_sock(K, sock) ==
    Bind(IF sock.typ = "conn" THEN destroy_conn_sock_data(K, sock)
         ELSE IF sock.typ = "tun" THEN destroy_tun_sock_data(K, sock)
         ELSE K,
         LAMBDA K1 :
           LET closes == IF ~K1.crashed /\ sock.fd > 0 THEN 1 ELSE 0
               K2 == IF K1.crashed THEN K1
                     ELSE IF ~IsLinked(K1.ctx.all_sockets, sock) THEN [K1 EXCEPT !.crashed = TRUE]
                     ELSE [K1 EXCEPT !.ctx.all_sockets = LIST_REMOVE(@, sock)]
           IN  [K2 EXCEPT !.destroyed = Append(@,
                   [fd |-> sock.fd, typ |-> sock.typ, peer |-> sock.peer,
                    outbound |-> sock.outbound,
                    route_drop |-> sock.typ = "conn",
                    unmapped |-> ~batab_has(K1.ctx.live_sockets, sock.peer),
                    relinked |-> Len(K1.ctx.disconnected_passive_peers)
                                   = Len(K.ctx.disconnected_passive_peers) + 1,
                    closes |-> closes])])

\* add_sock on the initialized socket object; outcome is what fcntl, epoll_ctl
\* and the route command do: "ok", "noblockfail", "epollfail" or "routefail";
\* [K, ret]
add_sock(K, sock, outcome) ==
    IF outcome = "noblockfail" THEN [K |-> K, ret |-> -1]
    ELSE IF outcome = "epollfail" THEN [K |-> destroy_sock(K, sock), ret |-> -1]
    ELSE LET K1 == [K EXCEPT !.ctx.all_sockets = LIST_INSERT_HEAD(@, sock)] IN
         IF sock.typ = "conn" /\ outcome = "routefail"
         THEN [K |-> destroy_sock(K1, sock), ret |-> -1]
         ELSE [K |-> K1, ret |-> 0]

(* ------------------------------ reconciler ---------------------------- *)
\* setup_outbount_connection: socket() has no fd left to give, or connect
\* fails: -1; else the connected fd
setup_outbount_connection(K, outcome) ==
    IF K.next_fd > MaxFd \/ outcome = "connfail" THEN -1 ELSE K.next_fd

\* peer is the entry of updated_passive_peers: [addr, ai_family]
connect_and_add_passive_peer(K, peer, outcome) ==
    LET peer_copy == peer
        K1 == [K EXCEPT !.ctx.passive_peers = batab_put(@, peer_copy.addr, peer_copy),
                        !.attempted = @ \cup {peer.addr}]
        fd == setup_outbount_connection(K1, outcome)
    IN  IF fd < 0
        THEN [K1 EXCEPT !.ctx.disconnected_passive_peers = LIST_INSERT_HEAD(@, peer_copy.addr)]
        ELSE Bind(add_sock([K1 EXCEPT !.next_fd = @ + 1],
                           init_out_conn_sock(new_sock(fd, "conn"), peer), outcome),
                  LAMBDA A :
                    IF A.K.crashed \/ A.ret = 0 THEN A.K
                    ELSE [A.K EXCEPT !.ctx.disconnected_passive_peers =
                                         LIST_INSERT_HEAD(@, peer_copy.addr)])

\* the socket live_sockets holds for a key
live_sock(K, key) ==
    CHOOSE sock \in {K.ctx.all_sockets[i] : i \in 1..Len(K.ctx.all_sockets)} :
        sock.fd = K.ctx.live_sockets[key]

\* LIST_REMOVE of a passive peer that is in no list works on the link
\* pointers malloc left: K.ub; the removal from passive_peers sits in an assert
disconnect_and_discard_passive_peer(K, addr) ==
    Bind(IF batab_has(K.ctx.live_sockets, addr) THEN destroy_sock(K, live_sock(K, addr)) ELSE K,
         LAMBDA K1 :
           LET list == K1.ctx.disconnected_passive_peers
               K2 == IF K1.crashed THEN K1
                     ELSE IF IsLinked(list, addr)
                     THEN [K1 EXCEPT !.ctx.disconnected_passive_peers = LIST_REMOVE(@, addr)]
                     ELSE IF K1.ub = "crash" THEN [K1 EXCEPT !.crashed = TRUE]
                     ELSE K1
           IN  IF K2.crashed \/ K2.ndebug THEN K2
               ELSE [K2 EXCEPT !.ctx.passive_peers = batab_remove(@, addr).tab])

\* the test reset_peers makes on a resolved address r = [ai_family, addr]
\* before it captures it; `using_af | USING_IPVx` is an or, not an and
retained(c, r) ==
    CASE r.ai_family = "AF_INET" ->
           bit_or(c.using_af, USING_IPV4) # 0 /\ memcmp(r.addr, c.self_v4, IPv4_ADDR_LEN) > 0
      [] r.ai_family = "AF_INET6" ->
           bit_or(c.using_af, USING_IPV6) # 0 /\ memcmp(r.addr, c.self_v6, IPv6_ADDR_LEN) > 0
      [] OTHER -> FALSE

\* capture_passive_peer over the file, no allocation failing: the table
\* updated_passive_peers
capture_passive_peer(c, file) ==
    LET kept == {r \in file : retained(c, r)}
        entry(key) == CHOOSE r \in kept : nw_addr_of(r.addr) = key
    IN  [key \in {nw_addr_of(r.addr) : r \in kept} |->
            [addr |-> key, ai_family |-> entry(key).ai_family]]

\* the loop of reset_peers over ctx->passive_peers
RECURSIVE discard_removed(_, _, _)
discard_removed(K, olds, updated_passive_peers) ==
    IF olds = <<>> \/ K.crashed THEN K
    ELSE Bind(IF batab_has(updated_passive_peers, Head(olds)) THEN K
              ELSE disconnect_and_discard_passive_peer(K, Head(olds)),
              LAMBDA K1 : discard_removed(K1, Tail(olds), updated_passive_peers))

\* the loop of reset_peers over updated_passive_peers
RECURSIVE connect_added(_, _, _, _)
connect_added(K, news, updated_passive_peers, outcomes) ==
    IF news = <<>> \/ K.crashed THEN K
    ELSE Bind(IF batab_has(K.ctx.passive_peers, Head(news)) THEN K
              ELSE connect_and_add_passive_peer(K, updated_passive_peers[Head(news)],
                                                outcomes[Head(news)]),
              LAMBDA K1 : connect_added(K1, Tail(news), updated_passive_peers, outcomes))

reset_peers(K, file, outcomes) ==
    LET updated_passive_peers == capture_passive_peer(K.ctx, file) IN
    Bind(discard_removed(K, batab_foreach_do(DOMAIN K.ctx.passive_peers), updated_passive_peers),
         LAMBDA K1 : connect_added(K1, batab_foreach_do(DOMAIN updated_passive_peers),
                                   updated_passive_peers, outcomes))

\* the parse loop of reset_peers over the resolved addresses in the order of
\* the file. nomem holds the addresses at which create_passive_peer's malloc
\* answers NULL, so that capture_passive_peer returns 1. The flag is assigned
\* at every address that passes the test, `encountered_failure =
\* capture_passive_peer(...)`: it holds what the last capture returned.
\* P = [tab, encountered_failure]
RECURSIVE parse_peer_file(_, _, _, _)
parse_peer_file(c, lines, nomem, P) ==
    IF lines = <<>> THEN P
    ELSE LET r == Head(lines)
             key == nw_addr_of(r.addr)
         IN  parse_peer_file(c, Tail(lines), nomem,
                 IF ~retained(c, r) THEN P
                 ELSE IF batab_has(P.tab, key) THEN [P EXCEPT !.encountered_failure = 0]
                 ELSE IF r \in nomem THEN [P EXCEPT !.encountered_failure = 1]
                 ELSE [tab |-> batab_put(P.tab, key, [addr |-> key, ai_family |-> r.ai_family]),
                       encountered_failure |-> 0])

\* reset_peers with allocations that may fail: the two reconciling loops run
\* when encountered_failure is 0 after the parse
reset_peers_parsed(K, P, outcomes) ==
    IF P.encountered_failure # 0 THEN K
    ELSE Bind(discard_removed(K, batab_foreach_do(DOMAIN K.ctx.passive_peers), P.tab),
              LAMBDA K1 : connect_added(K1, batab_foreach_do(DOMAIN P.tab), P.tab, outcomes))

\* one accepted connection from remote = [ai_family, addr]
do_accept(K, remote, outcome) ==
    add_sock([K EXCEPT !.next_fd = @ + 1],
             init_conn_sock(new_sock(K.next_fd, "conn"), nw_addr_of(remote.addr), remote.ai_family),
             outcome).K

\* conn_io on the rings of one connection. destroy_sock on the send side
\* frees the connection and the handler goes on: `event | EPOLLIN` is true
\* of every event, and the receive side reads conn->ctx, conn->fd and
\* conn->d.conn.rx of the freed object. ub is what the read of freed memory
\* does: "crash", or "survive" with the object as destroy_sock left it
\* (fd = -1: recv answers EBADF). [tx, rx, ret, k, freed_use]
conn_io_rings(tx_ring, rx_ring, ub, k) ==
    Bind(drain_ring(tx_ring, "send_bl_batch", k),
         LAMBDA S :
           IF S.ret # CONN_KILL
           THEN Bind(fill_ring(rx_ring, "recv_batch", "push_to_tun", S.k),
                     LAMBDA F : [tx |-> S.r, rx |-> F.r, ret |-> F.ret, k |-> F.k,
                                 freed_use |-> <<>>])
           ELSE IF ub = "crash"
           THEN [tx |-> S.r, rx |-> rx_ring, ret |-> S.ret,
                 k |-> [S.k EXCEPT !.crashed = TRUE], freed_use |-> <<"conn->ctx">>]
           ELSE Bind(fill_ring(rx_ring, "recv_batch", "push_to_tun",
                               [S.k EXCEPT !.rcv = <<>>, !.rcv_end = "EBADF"]),
                     LAMBDA F :
                       [tx |-> S.r, rx |-> F.r, ret |-> CONN_KILL, k |-> F.k,
                        freed_use |-> <<"conn->ctx", "conn->fd", "conn->d.conn.rx">>
                                        \o IF ~F.k.crashed /\ ~F.k.hung /\ F.ret = CONN_KILL
                                           THEN <<"destroy_sock">> ELSE <<>>]))

\* do_accept when accept answers -1 with an errno other than EAGAIN,
\* EWOULDBLOCK and EMFILE: the failure is logged and the call goes on with
\* conn_fd = -1 and the remote address it never got; add_sock fails at fcntl
\* on -1, before the socket object exists, and do_accept returns 1
do_accept_failed(K) == add_sock(K, new_sock(-1, "conn"), "noblockfail")

\* while(do_accept(sock)); from a failed accept on: the loop calls accept
\* again. An errno that lasts (ENFILE, ENOMEM: nothing in the loop frees a
\* descriptor or memory) is answered again on every call; one that does not
\* (ECONNABORTED) is followed by EAGAIN
accept_loop_after_error(K, errno) ==
    Bind(do_accept_failed(K).K,
         LAMBDA K1 : IF errno \in {"ENFILE", "ENOMEM"} THEN [K1 EXCEPT !.hung = TRUE] ELSE K1)

\* conn_io on an event with both directions set (the tests are `event | ...`);
\* k is the environment of the sends and receives
conn_io(K, sock, k) ==
    Bind(drain_ring(sock.tx, "send_bl_batch", k),
         LAMBDA S :
           Bind(IF S.ret = CONN_KILL THEN destroy_sock(K, sock) ELSE K,
                LAMBDA K1 :
                  Bind(fill_ring(sock.rx, "recv_batch", "push_to_tun", S.k),
                       LAMBDA F :
                         IF F.k.crashed THEN [K1 EXCEPT !.crashed = TRUE]
                         ELSE IF F.k.hung THEN [K1 EXCEPT !.hung = TRUE]
                         ELSE IF F.ret = CONN_KILL THEN destroy_sock(K1, sock)
                         ELSE K1)))

\* all_sockets with the tx ring of the socket fd replaced
with_tx(list, fd, ring) ==
    [i \in 1..Len(list) |-> IF list[i].fd = fd THEN [list[i] EXCEPT !.tx = ring] ELSE list[i]]

\* read_tun_and_xmit for one packet read, the next read answering EAGAIN.
\* nw_addr is not initialised (`ip_v < prev_ip_v` is never true of unsigned
\* values with prev_ip_v = 0) and only its first 4 bytes are assigned: tail
\* is what the other bytes hold. c is ctx->c_world_tx.
\* [K, c, calls, dest]: the calls of write_to_conn and the fd they got (-1: NULL)
read_tun_and_xmit(K, c, pkt_buff, tail, k) ==
    LET ip_v == (pkt_buff[1] \div 16) * 16 IN
    IF ip_v # 64 THEN [K |-> K, c |-> c, calls |-> 0, dest |-> -1]
    ELSE IF ~K.ndebug /\ ~(Len(pkt_buff) > 20)
    THEN [K |-> [K EXCEPT !.crashed = TRUE], c |-> c, calls |-> 0, dest |-> -1]
    ELSE
      LET nw_addr == SubSeq(pkt_buff, 17, 20) \o tail
          found == batab_has(K.ctx.live_sockets, nw_addr)
      IN  IF ~found
          THEN [K |-> K, c |-> write_to_conn(c, <<>>, TRUE, pkt_buff, k).c,
                calls |-> 1, dest |-> -1]
          ELSE Bind(write_to_conn(c, live_sock(K, nw_addr).tx, FALSE, pkt_buff, k),
                    LAMBDA w :
                      [K |-> [K EXCEPT !.ctx.all_sockets =
                                          with_tx(@, live_sock(K, nw_addr).fd, w.tx),
                                       !.crashed = w.k.crashed, !.hung = w.k.hung],
                       c |-> w.c, calls |-> 1, dest |-> live_sock(K, nw_addr).fd])

\* the ring tun_io drains: `tun->d.conn.tx`, the connection's member of the
\* union, read from a tun socket. Where it lies over d.tun depends on the
\* ABI. With 8-byte pointers and ssize_t its buff is r_buff.current_pkt_len
\* (0), its start w_buff.capacity (4096), its end w_buff.len (0), and it is
\* not wraped: write_to_tun is handed a negative length, parses a packet
\* length of 0, answers CONN_IO_OK and drain_ring calls it again for ever.
\* With 4-byte ones start and end lie in bytes calloc zeroed: nothing to drain.
tun_io_drain(K, abi) == IF abi = "lp64" THEN [K EXCEPT !.hung = TRUE] ELSE K

\* tun_io on an event with both directions set (the tests are `event | ...`)
tun_io(K, c, pkt_buff, tail, abi, k) ==
    Bind(tun_io_drain(K, abi),
         LAMBDA K1 :
           IF K1.hung THEN [K |-> K1, c |-> c, calls |-> 0, dest |-> -1]
           ELSE read_tun_and_xmit(K1, c, pkt_buff, tail, k))

\* destroy_io_ctx: the live map first, then the sockets from the head of the list
RECURSIVE destroy_all_sockets(_)
destroy_all_sockets(K) ==
    IF K.crashed \/ K.ctx.all_sockets = <<>> THEN K
    ELSE Bind(destroy_sock(K, Head(K.ctx.all_sockets)), LAMBDA K1 : destroy_all_sockets(K1))

destroy_io_ctx(K) ==
    Bind(destroy_all_sockets([K EXCEPT !.ctx.live_sockets = batab_init]),
         LAMBDA K1 : IF K1.crashed THEN K1 ELSE [K1 EXCEPT !.ctx.passive_peers = batab_init])

\* init_io_ctx and setup_listener, all calls succeeding: self is
\* [v4, v6], the parsed self addresses, <<>> for one not given
init_io_ctx(self) ==
    [all_sockets |-> <<new_sock(5, "lstn"), new_sock(3, "tun")>>,
     live_sockets |-> batab_init,
     disconnected_passive_peers |-> <<>>,
     passive_peers |-> batab_init,
     self_v4 |-> nw_addr_of(self.v4),
     self_v6 |-> nw_addr_of(self.v6),
     using_af |-> bit_or(IF self.v4 # <<>> THEN USING_IPV4 ELSE 0,
                         IF self.v6 # <<>> THEN USING_IPV6 ELSE 0)]

\* the io_ctx_t calloc and the two LIST_INITs leave
calloc_io_ctx ==
    [all_sockets |-> <<>>,
     live_sockets |-> batab_init,
     disconnected_passive_peers |-> <<>>,
     passive_peers |-> batab_init,
     self_v4 |-> Zeros(MAX_NW_ADDR_LEN),
     self_v6 |-> Zeros(MAX_NW_ADDR_LEN),
     using_af |-> 0]

\* inet_pton on the address strings a start is given: [ret, addr]
inet_pton(str) ==
    IF str = "10.0.0.2" THEN [ret |-> 1, addr |-> <<10, 0, 0, 2>>]
    ELSE IF str = "fd00::2"
    THEN [ret |-> 1, addr |-> <<253>> \o Zeros(IPv6_ADDR_LEN - 2) \o <<2>>]
    ELSE [ret |-> 0, addr |-> <<>>]

\* init_io_ctx step by step. a is what the start is given: a.v4 and a.v6 are
\* "null" or an address string; a.epoll is what epoll_create answers, a.tun
\* what add_sock meets for the tun. [K, null]: null when init_io_ctx returns
\* NULL. A failing add_sock is only logged.
init_io_ctx_steps(K, a) ==
    IF a.epoll = "fail" THEN [K |-> K, null |-> TRUE]
    ELSE IF a.v4 # "null" /\ inet_pton(a.v4).ret # 1 THEN [K |-> K, null |-> TRUE]
    ELSE IF a.v6 # "null" /\ inet_pton(a.v6).ret # 1 THEN [K |-> K, null |-> TRUE]
    ELSE IF a.v4 = "null" /\ a.v6 = "null" THEN [K |-> K, null |-> TRUE]
    ELSE LET c == [calloc_io_ctx EXCEPT
                     !.self_v4 = IF a.v4 = "null" THEN @ ELSE nw_addr_of(inet_pton(a.v4).addr),
                     !.self_v6 = IF a.v6 = "null" THEN @ ELSE nw_addr_of(inet_pton(a.v6).addr),
                     !.using_af = bit_or(IF a.v4 = "null" THEN 0 ELSE USING_IPV4,
                                         IF a.v6 = "null" THEN 0 ELSE USING_IPV6)]
         IN  [K |-> add_sock([K EXCEPT !.ctx = c], new_sock(3, "tun"), a.tun).K,
              null |-> FALSE]

\* setup_listener with one address to listen on: a.lstn is "bindfail" when
\* socket, bind or listen fails, else what add_sock meets; -1 when num_socks
\* stays 0; [K, ret]
setup_listener(K, a) ==
    IF a.lstn = "bindfail" THEN [K |-> K, ret |-> -1]
    ELSE add_sock([K EXCEPT !.next_fd = 6], new_sock(5, "lstn"), a.lstn)

(* ------------------------------- state -------------------------------- *)
VARIABLES
    ndebug,         \* the build: assert() compiled out (NDEBUG) or not
    plane,          \* data plane: the rings a behaviour drives, "conn" or "tun"
    little_endian,  \* the host's byte order
    tx, rx,         \* data plane: the tx and rx ring of one connection
    tun_tx,         \* data plane: the tun's tx backlog ring
    w_buff,         \* data plane: the tun's w_buff: [buff, len, current_pkt_len]
    wire,           \* bytes send() took on the connection's fd, in order
    tun_out,        \* the writes the tun took during the last push
    c_world_tx,     \* ctx->c_world_tx: [drop_p, drop_b]
    run,            \* "run", "hung" (a call never returns), "crashed", "killed"
    enq,            \* bytes the handlers wrote into tx, in order
    bk_in,          \* bytes of the packets appended to the backlog, in order
    not_enq,        \* packets handed to write_to_conn and not enqueued: [p, b]
    rcvd,           \* bytes recv() delivered on the connection's fd, in order
    freed_use,      \* what conn_io read of the connection after destroy_sock freed it
    ctx,            \* the io_ctx_t: sockets, maps, disconnected list, self addresses
    peer_file,      \* the resolved addresses of the lines of the peer file
    do_peer_reset,  \* the reload flag
    next_fd,        \* the fd the next socket() or accept() returns
    destroyed,      \* the destroy_sock calls so far, one record each
    daemons,        \* a pair of daemons, "A" and "B": each one's self, file and io_ctx_t
    io_st,          \* io(): where it stands, its arguments, do_stop, its return value
    last            \* the handler io() ran last, with what the system calls answered it

ringVars == <<plane, tx, rx, tun_tx, w_buff, wire, tun_out, c_world_tx, enq, bk_in, not_enq,
              rcvd, freed_use>>
ctxVars == <<ctx, peer_file, do_peer_reset, next_fd, destroyed>>
pairVars == <<daemons>>
loopVars == <<io_st, last>>
vars == <<ndebug, little_endian, run, ringVars, ctxVars, pairVars, loopVars>>

(* ---------------------- the daemon: environment ----------------------- *)
V4(d) == <<10, 0, 0, d>>
V6(d) == <<253>> \o Zeros(IPv6_ADDR_LEN - 2) \o <<d>>

\* the self addresses io() is given: IPv4 only, IPv6 only, both
SelfArgs == {[v4 |-> V4(2), v6 |-> <<>>], [v4 |-> <<>>, v6 |-> V6(2)], [v4 |-> V4(2), v6 |-> V6(2)]}

\* what the lines of a peer file resolve to
PeerAddrs == {[ai_family |-> "AF_INET", addr |-> V4(2)], [ai_family |-> "AF_INET", addr |-> V4(3)],
              [ai_family |-> "AF_INET6", addr |-> V6(3)]}

\* the remote addresses of inbound connections
InboundAddrs == {[ai_family |-> "AF_INET", addr |-> V4(1)], [ai_family |-> "AF_INET", addr |-> V4(3)]}

(* ---------------------- data plane: environment ----------------------- *)
\* an IPv4 packet of total length L for 10.0.0.2: header, then L - 20 bytes
MkPkt(L) ==
    <<69, 0, L \div 256, L % 256>> \o [i \in 1..12 |-> 0] \o <<10, 0, 0, 2>>
        \o [i \in 1..(L - IPV4_HDR_LEN) |-> 100 + i]

\* what a read of the tun returns
TunPkts == {MkPkt(L) : L \in (IPV4_HDR_LEN + 1)..MaxPktLen}

\* what a connection's rx ring may hold: whole packets, the first bytes of a
\* packet still arriving (one of 260 bytes), an IPv6 packet, another version
RxStreams ==
    TunPkts \cup {p \o q : p \in {MkPkt(IPV4_HDR_LEN + 1)}, q \in TunPkts}
        \cup {<<69, 0, 1, 4>>, <<96, 0, 0, 0>>, <<0, 0, 0, 0>>}

\* the occupied region as fill_ring hands it to the pusher: len1 > 0 bytes
\* up to the wrap (b1), the rest from the ring's base (b2)
RxSpans == {[b1 |-> SubSeq(s, 1, n), b2 |-> SubSeq(s, n + 1, Len(s))] :
              s \in RxStreams, n \in 1..4} \cup
           {[b1 |-> s, b2 |-> <<>>] : s \in RxStreams} \cup
           {[b1 |-> SubSeq(s, 1, IPV4_HDR_LEN + 2), b2 |-> SubSeq(s, IPV4_HDR_LEN + 3, Len(s))] :
              s \in {t \in RxStreams : Len(t) > IPV4_HDR_LEN + 2}}

\* the tun at a push: the writes it takes, then the errno of the one it refuses
TunStates == {[room |-> 2, err |-> "EAGAIN"], [room |-> 1, err |-> "EAGAIN"],
              [room |-> 0, err |-> "EAGAIN"], [room |-> 0, err |-> "EIO"]}

\* the handler context and the environment of a call
Env(room, snd_err, rcv, rcv_end, tun_room, tun_err) ==
    [pkt |-> [buff |-> <<>>, len |-> 0, already_written |-> 0],
     twb |-> [b1 |-> <<>>, len1 |-> 0, b2 |-> <<>>, len2 |-> 0],
     wire |-> wire, room |-> room, snd_err |-> snd_err,
     rcv |-> rcv, rcv_end |-> rcv_end,
     tun_tx |-> tun_tx, w_buff |-> w_buff, stale |-> 0,
     tun_room |-> tun_room, tun_err |-> tun_err, tun_out |-> <<>>,
     ndebug |-> ndebug, le |-> little_endian, crashed |-> FALSE, hung |-> FALSE]

RunAfter(k, killed) ==
    IF k.crashed THEN "crashed" ELSE IF k.hung THEN "hung" ELSE IF killed THEN "killed" ELSE "run"

(* ----------------------- data plane: operations ----------------------- *)
\* read_tun_and_xmit hands a packet to write_to_conn
WriteToConn ==
    /\ plane = "conn"
    /\ run = "run"
    /\ c_world_tx.drop_p < MaxDrops
    /\ \E pkt \in TunPkts, conn_null \in BOOLEAN, room \in 0..(MaxWire - Len(wire)) :
       \E w \in {write_to_conn(c_world_tx, tx, conn_null, pkt,
                                Env(room, "EAGAIN", <<>>, "EAGAIN", 0, "EAGAIN"))} :
         LET written == IF conn_null THEN 0 ELSE w.k.pkt.already_written
         IN  /\ tx' = w.tx
             /\ c_world_tx' = w.c
             /\ wire' = w.k.wire
             /\ run' = RunAfter(w.k, FALSE)
             /\ enq' = enq \o SubSeq(pkt, 1, written)
             /\ not_enq' = IF written < Len(pkt)
                           THEN [p |-> not_enq.p + 1, b |-> not_enq.b + Len(pkt)]
                           ELSE not_enq
    /\ UNCHANGED <<loopVars, pairVars, ctxVars, ndebug, plane, little_endian, rx, tun_tx, w_buff, tun_out, bk_in,
                   rcvd, freed_use>>

\* conn_io, the write side: drain_ring(conn->fd, &conn->d.conn.tx, send_bl_batch, NULL)
DrainTx ==
    /\ plane = "conn"
    /\ run = "run"
    /\ \E room \in 0..(MaxWire - Len(wire)), snd_err \in {"EAGAIN", "ECONNRESET", "EIO"} :
       \E S \in {drain_ring(tx, "send_bl_batch",
                              Env(room, snd_err, <<>>, "EAGAIN", 0, "EAGAIN"))} :
             /\ tx' = S.r
             /\ wire' = S.k.wire
             /\ run' = RunAfter(S.k, S.ret = CONN_KILL)
    /\ UNCHANGED <<loopVars, pairVars, ctxVars, ndebug, plane, little_endian, rx, tun_tx, w_buff, tun_out, c_world_tx, enq, bk_in,
                   not_enq, rcvd, freed_use>>

\* conn_io, the read side: fill_ring(conn->fd, &conn->d.conn.rx, recv_batch, push_to_tun, &tun_tx)
FillRx ==
    /\ plane = "conn"
    /\ run = "run"
    /\ \E rcv \in {<<>>} \cup TunPkts, rcv_end \in {"EAGAIN", "EOF", "ECONNRESET"},
          tun_room \in 0..1 :
       \E S \in {fill_ring(rx, "recv_batch", "push_to_tun",
                            Env(0, "EAGAIN", rcv, rcv_end, tun_room, "EAGAIN"))} :
             /\ rx' = S.r
             /\ tun_tx' = S.k.tun_tx
             /\ tun_out' = S.k.tun_out
             /\ run' = RunAfter(S.k, S.ret = CONN_KILL)
             /\ rcvd' = rcvd \o SubSeq(rcv, 1, Len(rcv) - Len(S.k.rcv))
    /\ UNCHANGED <<loopVars, pairVars, ctxVars, ndebug, plane, little_endian, tx, w_buff, wire, c_world_tx, enq, bk_in, not_enq,
                   freed_use>>

\* an event on the connection: conn_io, the send side and then the read side
ConnEvent ==
    /\ plane = "conn"
    /\ run = "run"
    /\ \E snd_err \in {"EAGAIN", "ECONNRESET", "EPIPE"}, rcv_end \in {"EAGAIN", "EOF"},
          ub \in {"crash", "survive"} :
       \E R \in {conn_io_rings(tx, rx, ub, Env(0, snd_err, <<>>, rcv_end, 1, "EAGAIN"))} :
             /\ tx' = R.tx
             /\ rx' = R.rx
             /\ wire' = R.k.wire
             /\ tun_tx' = R.k.tun_tx
             /\ tun_out' = R.k.tun_out
             /\ run' = RunAfter(R.k, R.ret = CONN_KILL)
             /\ freed_use' = R.freed_use
    /\ UNCHANGED <<loopVars, pairVars, ctxVars, ndebug, plane, little_endian, w_buff, c_world_tx,
                   enq, bk_in, not_enq, rcvd>>

\* the bytes the tun took in the writes outs
RECURSIVE written_to_tun(_)
written_to_tun(outs) == IF outs = <<>> THEN 0 ELSE Len(Head(outs)) + written_to_tun(Tail(outs))

\* push_to_tun on an occupied region of an rx ring
PushToTun ==
    /\ plane = "tun"
    /\ run = "run"
    /\ \E sp \in RxSpans, t \in TunStates :
       \E res \in {push_to_tun(Env(0, "EAGAIN", <<>>, "EAGAIN", t.room, t.err), sp.b1, sp.b2)} :
             /\ tun_tx' = res.k.tun_tx
             /\ tun_out' = res.k.tun_out
             /\ run' = RunAfter(res.k, FALSE)
             /\ bk_in' = bk_in \o SubSeq(sp.b1 \o sp.b2, written_to_tun(res.k.tun_out) + 1, res.moved)
    /\ UNCHANGED <<loopVars, pairVars, ctxVars, ndebug, plane, little_endian, tx, rx, w_buff, wire, c_world_tx, enq, not_enq,
                   rcvd, freed_use>>

\* the drain of the tun's backlog on a tun-writable event:
\* drain_ring(tun->fd, <the tx backlog ring>, write_to_tun, &tun->d.tun.w_buff)
DrainTun ==
    /\ plane = "tun"
    /\ run = "run"
    /\ \E t \in TunStates, stale \in 0..1 :
       \E S \in {drain_ring(tun_tx, "write_to_tun",
                              [Env(0, "EAGAIN", <<>>, "EAGAIN", t.room, t.err) EXCEPT !.stale = stale])} :
             /\ tun_tx' = S.r
             /\ w_buff' = S.k.w_buff
             /\ tun_out' = S.k.tun_out
             /\ run' = RunAfter(S.k, FALSE)
    /\ UNCHANGED <<loopVars, pairVars, ctxVars, ndebug, plane, little_endian, tx, rx, wire, c_world_tx, enq, bk_in, not_enq,
                   rcvd, freed_use>>

\* io() not followed step by step
LoopIdle ==
    /\ io_st = <<>>
    /\ last = <<>>

\* the data plane before any call
RingIdle ==
    /\ tx = init_backlog_ring(ConnRingSz)
    /\ rx = init_backlog_ring(ConnRingSz)
    /\ tun_tx = init_backlog_ring(TunRingSz)
    /\ w_buff = [buff |-> <<>>, len |-> 0, current_pkt_len |-> 0]
    /\ wire = <<>>
    /\ tun_out = <<>>
    /\ c_world_tx = [drop_p |-> 0, drop_b |-> 0]
    /\ enq = <<>>
    /\ bk_in = <<>>
    /\ not_enq = [p |-> 0, b |-> 0]
    /\ rcvd = <<>>
    /\ freed_use = <<>>

InitRing ==
    /\ ndebug \in BOOLEAN
    /\ plane \in {"conn", "tun"}
    /\ little_endian \in BOOLEAN
    /\ RingIdle
    /\ run = "run"
    /\ ctx = init_io_ctx([v4 |-> V4(2), v6 |-> <<>>])
    /\ peer_file = {}
    /\ do_peer_reset = 1
    /\ next_fd = 6
    /\ destroyed = <<>>
    /\ daemons = <<>>
    /\ LoopIdle

NextRing == WriteToConn \/ DrainTx \/ FillRx \/ ConnEvent \/ PushToTun \/ DrainTun

SpecRing == InitRing /\ [][NextRing]_vars

(* ------------------------ data plane: properties ---------------------- *)
IsPrefix(s, t) == Len(s) <= Len(t) /\ s = SubSeq(t, 1, Len(s))

\* the number of occupied bytes of a ring, from its offsets
occupied_bytes(r) == IF r.wraped THEN (r.sz - r.start) + r.end ELSE r.end - r.start

RingOk(r) ==
    /\ 0 <= r.start /\ r.start <= r.sz
    /\ 0 <= r.end /\ r.end <= r.sz
    /\ r.wraped => r.end <= r.start
    /\ (~r.wraped) => r.start <= r.end
    /\ occupied_bytes(r) <= r.sz
    /\ Len(r.buff) = r.sz

\* C1: after any sequence of fill_ring and drain_ring calls with the program's
\* handlers and pushers, every ring (connection tx, connection rx, tun tx
\* backlog) has 0 <= start <= sz, 0 <= end <= sz, wraped => end <= start,
\* ~wraped => start <= end, and no more than sz occupied bytes.
C1_RingInvariants == RingOk(tx) /\ RingOk(rx) /\ RingOk(tun_tx)

\* a tx ring filled to its last byte and wrapped by the fills of write_to_conn
C1_Witness ==
    /\ tx.wraped /\ tx.start = tx.end
    /\ occupied_bytes(tx) = ConnRingSz
    /\ Len(enq) = ConnRingSz

\* C2: the bytes handed out of a ring, read in order, are the bytes written
\* into it in order: what the send handler and the passthru pusher took out
\* of the tx ring is a prefix of what the fills enqueued.
C2_FifoIntegrity == IsPrefix(wire, enq)

\* C3: every write or writev the tun took carries exactly one whole packet:
\* its length is the total-length field (header bytes 2-3) of its bytes.
C3_WholePacketWrites ==
    \A i \in 1..Len(tun_out) :
        /\ Len(tun_out[i]) >= 4
        /\ tun_out[i][3] * 256 + tun_out[i][4] = Len(tun_out[i])

\* C9: drop_p is the number of packets handed to write_to_conn that were not
\* enqueued and drop_b the sum of their lengths.
C9_DropCounters ==
    /\ c_world_tx.drop_p = not_enq.p
    /\ c_world_tx.drop_b = not_enq.b

\* s is t[i..j] for some i, j
IsSegment(s, t) ==
    \E i \in 0..(Len(t) - Len(s)) : s = SubSeq(t, i + 1, i + Len(s))

\* C11: in a step that starts with the tun tx backlog non-empty, the tun gets
\* no direct writev of a pushed packet: every write it takes is a run of
\* bytes of the backlog, and a pushed packet is appended to the backlog or
\* not moved.
C11_NoDirectWriteBehindBacklog ==
    [][(plane = "tun" /\ ~ring_empty(tun_tx)) =>
          /\ \A i \in 1..Len(tun_out') : IsSegment(tun_out'[i], Occupied(tun_tx))
          /\ IsPrefix(Occupied(tun_tx), Occupied(tun_tx'))]_vars

\* a packet was pushed while the backlog held another one, and was appended
C11_Witness ==
    /\ plane = "tun"
    /\ run = "run"
    /\ bk_in = MkPkt(MaxPktLen) \o MkPkt(IPV4_HDR_LEN + 1)
    /\ Occupied(tun_tx) = bk_in

\* C21: recv_batch advances the rx ring's end by the bytes it received: after
\* a read event that received bytes, the rx ring holds what it held before
\* followed by the bytes received, less the bytes the pusher moved on to the
\* tun (written, or appended to the backlog), which leave from the head.
C21_ReceivedBytesEnterTheRing ==
    [][(plane = "conn" /\ rcvd' # rcvd) =>
          \E moved \in {written_to_tun(tun_out')
                          + (occupied_bytes(tun_tx') - occupied_bytes(tun_tx))} :
          \E all \in {Occupied(rx) \o SubSeq(rcvd', Len(rcvd) + 1, Len(rcvd'))} :
              Occupied(rx') = SubSeq(all, moved + 1, Len(all))]_vars

\* the bytes the tun took in the writes outs, in order
RECURSIVE tun_bytes(_)
tun_bytes(outs) == IF outs = <<>> THEN <<>> ELSE Head(outs) \o tun_bytes(Tail(outs))

total_length(hdr) == hdr[3] * 256 + hdr[4]

\* C23: for every occupied region push_to_tun can be handed, split anywhere
\* over the two spans, with at least 4 header bytes available,
\* parse_l3_packet_len answers the total-length field of the header.
C23_ParsedLengthIsTotalLength ==
    (plane = "tun" /\ run = "run") =>
        \A sp \in RxSpans :
            Len(sp.b1) + Len(sp.b2) >= 4 =>
                parse_l3_packet_len(little_endian, sp.b1, sp.b2) = total_length(sp.b1 \o sp.b2)

\* C24: a push that reports packets as appended to the tun tx backlog has
\* extended the backlog's occupied content by exactly these packets, span 1
\* followed by span 2, byte for byte.
C24_BacklogPushIsAllOrNothing ==
    [][(plane = "tun" /\ bk_in' # bk_in) =>
          Occupied(tun_tx') = Occupied(tun_tx) \o SubSeq(bk_in', Len(bk_in) + 1, Len(bk_in'))]_vars

\* write_to_conn left the ring as it was, or added one whole packet at its end
WholeOrNothing ==
    \/ Occupied(tx') = Occupied(tx) /\ enq' = enq
    \/ \E pkt \in TunPkts : Occupied(tx') = Occupied(tx) \o pkt /\ enq' = enq \o pkt

\* C25: every call of write_to_conn ends, and with the packet either not in
\* the tx ring at all or added to it whole and in order; the assertion at its
\* end does not fail.
C25_NeverPartiallyEnqueued ==
    [][(plane = "conn" /\ (enq' # enq \/ not_enq' # not_enq)) =>
          (run' = "run" /\ WholeOrNothing)]_vars

\* C28: fill_ring never calls the pusher on an empty rx ring, so the
\* assertion `len1 + len2 > 0` at the top of push_to_tun holds on every call:
\* no read event of a connection ends in the failed assertion (or, without
\* assertions, in the read through the NULL second span).
C28_PusherNeverGetsAnEmptyRing ==
    [][(plane = "conn" /\ wire' = wire /\ enq' = enq /\ not_enq' = not_enq)
          => run' # "crashed"]_vars

\* C29: the assertion `(len2 - buf2_to_be_pushed) > 0` of push_to_tun_ipv4
\* holds for every rx content that passed `len1 + len2 >= pkt_len`, a packet
\* split across the wrap whose last byte is the last occupied byte included:
\* no push of an occupied region ends in a failed assertion.
C29_SecondSpanAssertionHolds ==
    [][(plane = "tun" /\ ~ndebug) => run' # "crashed"]_vars

\* C30: no handler touches a socket after destroy_sock: once the send side
\* of a conn_io dispatch destroyed the connection, the receive side of the
\* same dispatch reads nothing of it, fills no rx ring and destroys nothing
\* again.
C30_NoUseAfterDestroy == freed_use = <<>>

\* C15: a packet handed to write_to_conn while the connection's tx ring is
\* full, and so not enqueued, is dropped: the call returns, the ring's
\* content is as before, drop_p is one higher and drop_b higher by the
\* packet's length, whatever the socket accepts meanwhile.
C15_FullRingDropsAndReturns ==
    [][(plane = "conn" /\ occupied_bytes(tx) = tx.sz /\ not_enq'.p = not_enq.p + 1) =>
          /\ run' = "run"
          /\ Occupied(tx') = Occupied(tx)
          /\ c_world_tx'.drop_p = c_world_tx.drop_p + 1
          /\ c_world_tx'.drop_b = c_world_tx.drop_b + (not_enq'.b - not_enq.b)]_vars

\* C16: with the tun tx backlog full, a push of a whole packet held by a
\* connection's rx ring returns, moves nothing (the bytes stay in the rx
\* ring) and leaves the backlog's content as it was.
C16_FullBacklogStallsThePush ==
    (plane = "tun" /\ run = "run" /\ occupied_bytes(tun_tx) = tun_tx.sz) =>
        \A sp \in {x \in RxSpans : (x.b1 \o x.b2) \in TunPkts}, t \in TunStates :
            \A res \in {push_to_tun(Env(0, "EAGAIN", <<>>, "EAGAIN", t.room, t.err), sp.b1, sp.b2)} :
                /\ ~res.k.hung /\ ~res.k.crashed
                /\ res.moved = 0
                /\ Occupied(res.k.tun_tx) = Occupied(tun_tx)

\* C20: send_bl_batch advances the tx ring's start by the bytes it sent: in a
\* step that enqueues nothing, the bytes the socket took have left the head
\* of the ring, so every byte is sent once, in order, and the ring is empty
\* when all are sent.
C20_SentBytesLeaveTheRing ==
    [][(plane = "conn" /\ enq' = enq /\ run' \in {"run", "killed"}) =>
          Occupied(tx') = SubSeq(Occupied(tx), (Len(wire') - Len(wire)) + 1,
                                 Len(Occupied(tx)))]_vars

(* ----------------------- the daemon: operations ----------------------- *)
Ctx(ub) ==
    [ctx |-> ctx, next_fd |-> next_fd, destroyed |-> destroyed, crashed |-> FALSE,
     hung |-> FALSE, ndebug |-> ndebug, ub |-> ub, attempted |-> {}]

Becomes(K) ==
    /\ ctx' = K.ctx
    /\ next_fd' = K.next_fd
    /\ destroyed' = K.destroyed
    /\ run' = IF K.crashed THEN "crashed" ELSE IF K.hung THEN "hung" ELSE "run"

conn_socks(c) == {c.all_sockets[i] : i \in {j \in 1..Len(c.all_sockets) : c.all_sockets[j].typ = "conn"}}

\* the peer file is rewritten and trigger_peer_reset called
TriggerPeerReset ==
    /\ run = "run"
    /\ do_peer_reset = 0
    /\ peer_file' \in SUBSET PeerAddrs
    /\ do_peer_reset' = 1
    /\ UNCHANGED <<loopVars, pairVars, ndebug, little_endian, run, ringVars, ctx, next_fd, destroyed>>

\* io(): if (do_peer_reset) { reset_peers(...); do_peer_reset = 0; }
ResetPeers ==
    /\ run = "run"
    /\ do_peer_reset = 1
    /\ \E ub \in {"crash", "survive"},
          outcomes \in [(DOMAIN capture_passive_peer(ctx, peer_file)) \ (DOMAIN ctx.passive_peers) ->
                          {"ok", "connfail", "routefail", "epollfail"}] :
       \E K \in {reset_peers(Ctx(ub), peer_file, outcomes)} :
             /\ Becomes(K)
             /\ do_peer_reset' = IF K.crashed THEN do_peer_reset ELSE 0
    /\ UNCHANGED <<loopVars, pairVars, ndebug, little_endian, ringVars, peer_file>>

\* a listener event: one connection is accepted and installed, then accept
\* answers EAGAIN, or EMFILE when no fd is left
DoAccept ==
    /\ run = "run"
    /\ next_fd <= MaxFd
    /\ \E remote \in InboundAddrs, outcome \in {"ok", "routefail", "epollfail"} :
       \E K \in {do_accept(Ctx("survive"), remote, outcome)} : Becomes(K)
    /\ UNCHANGED <<loopVars, pairVars, ndebug, little_endian, ringVars, peer_file, do_peer_reset>>

\* an event on a connection
ConnIo ==
    /\ run = "run"
    /\ \E sock \in conn_socks(ctx), rcv \in {<<>>} \cup TunPkts, rcv_end \in {"EAGAIN", "EOF"} :
       \E K \in {conn_io(Ctx("survive"), sock, Env(0, "EAGAIN", rcv, rcv_end, 1, "EAGAIN"))} :
             Becomes(K)
    /\ UNCHANGED <<loopVars, pairVars, ndebug, little_endian, ringVars, peer_file, do_peer_reset>>

\* trigger_io_loop_stop, the loop ends and io() calls destroy_io_ctx
Stop ==
    /\ run = "run"
    /\ \E ub \in {"crash", "survive"} :
       \E K \in {destroy_io_ctx(Ctx(ub))} :
             /\ ctx' = K.ctx
             /\ next_fd' = K.next_fd
             /\ destroyed' = K.destroyed
             /\ run' = IF K.crashed THEN "crashed" ELSE "stopped"
    /\ UNCHANGED <<loopVars, pairVars, ndebug, little_endian, ringVars, peer_file, do_peer_reset>>

Init ==
    /\ ndebug \in BOOLEAN
    /\ little_endian = TRUE
    /\ plane = "none"
    /\ RingIdle
    /\ run = "run"
    /\ ctx \in {init_io_ctx(self) : self \in SelfArgs}
    /\ peer_file \in SUBSET PeerAddrs
    /\ do_peer_reset = 1
    /\ next_fd = 6
    /\ destroyed = <<>>
    /\ daemons = <<>>
    /\ LoopIdle

Next == TriggerPeerReset \/ ResetPeers \/ DoAccept \/ ConnIo \/ Stop

Spec == Init /\ [][Next]_vars

(* ------------------------ the daemon: properties ---------------------- *)
\* between two handlers, with the last reload served
Settled == run = "run" /\ do_peer_reset = 0

\* the family of r is enabled in the self configuration
family_enabled(c, r) ==
    \/ r.ai_family = "AF_INET" /\ c.using_af % 2 = 1
    \/ r.ai_family = "AF_INET6" /\ c.using_af \div 2 = 1

\* r is strictly greater than the self address of its family
greater_than_self(c, r) ==
    IF r.ai_family = "AF_INET" THEN memcmp(r.addr, c.self_v4, IPv4_ADDR_LEN) > 0
    ELSE memcmp(r.addr, c.self_v6, IPv6_ADDR_LEN) > 0

\* C5: after reset_peers ran against a file resolving to S, the keys of
\* ctx->passive_peers are exactly the addresses of S whose family is enabled
\* and that are strictly greater than the self address of that family.
C5_PassivePeersAreTheFilteredFile ==
    Settled =>
        DOMAIN ctx.passive_peers =
            {nw_addr_of(r.addr) : r \in {q \in peer_file : family_enabled(ctx, q)
                                                            /\ greater_than_self(ctx, q)}}

\* C6: after a reload no outbound connection is left to a peer the reload
\* removed: every outbound connection in all_sockets or live_sockets is to
\* an address the run kept.
C6_RemovedPeerIsDisconnected ==
    Settled =>
        \A sock \in conn_socks(ctx) :
            sock.outbound => batab_has(capture_passive_peer(ctx, peer_file), sock.peer)

C8_LiveConnectionsAreMapped ==
    run = "run" =>
        /\ \A sock \in conn_socks(ctx) :
              batab_has(ctx.live_sockets, sock.peer) /\ ctx.live_sockets[sock.peer] = sock.fd
        /\ \A s1, s2 \in conn_socks(ctx) : s1.peer = s2.peer => s1 = s2

\* C10: between two handlers a passive peer is in the disconnected list
\* exactly when no live connection exists for its address.
C10_DisconnectedIffNoConnection ==
    run = "run" =>
        \A addr \in DOMAIN ctx.passive_peers :
            IsLinked(ctx.disconnected_passive_peers, addr)
                <=> ~\E sock \in conn_socks(ctx) : sock.peer = addr

(* --------------------------- a pair of daemons ------------------------ *)
\* the self addresses of daemon A; daemon B has one of SelfArgs
SelfArgsA == {[v4 |-> a4, v6 |-> a6] : a4 \in {<<>>, V4(1), V4(3)}, a6 \in {<<>>, V6(1), V6(3)}}
                 \ {[v4 |-> <<>>, v6 |-> <<>>]}

\* what the lines of a peer file naming a daemon resolve to
AddrsOf(self) ==
    {[ai_family |-> "AF_INET", addr |-> self.v4] : x \in {y \in {1} : self.v4 # <<>>}}
        \cup {[ai_family |-> "AF_INET6", addr |-> self.v6] : x \in {y \in {1} : self.v6 # <<>>}}

\* a daemon after init_io_ctx, its first reload pending
Daemon(self, file) ==
    [self |-> self, peer_file |-> file, ctx |-> init_io_ctx(self), next_fd |-> 6,
     destroyed |-> <<>>, do_peer_reset |-> 1, run |-> "run"]

\* io() of daemon d serves its reload
PairResetPeers ==
    \E d \in DOMAIN daemons :
      /\ daemons[d].run = "run"
      /\ daemons[d].do_peer_reset = 1
      /\ \E ub \in {"crash", "survive"},
            outcomes \in [DOMAIN capture_passive_peer(daemons[d].ctx, daemons[d].peer_file) ->
                            {"ok", "connfail", "routefail", "epollfail"}] :
         \E K \in {reset_peers([ctx |-> daemons[d].ctx, next_fd |-> daemons[d].next_fd,
                                  destroyed |-> daemons[d].destroyed, crashed |-> FALSE,
                                  hung |-> FALSE, ndebug |-> ndebug, ub |-> ub,
                                  attempted |-> {}],
                                 daemons[d].peer_file, outcomes)} :
           daemons' = [daemons EXCEPT ![d].ctx = K.ctx,
                                      ![d].next_fd = K.next_fd,
                                      ![d].destroyed = K.destroyed,
                                      ![d].run = IF K.crashed THEN "crashed" ELSE "run",
                                      ![d].do_peer_reset = IF K.crashed THEN 1 ELSE 0]
      /\ UNCHANGED <<loopVars, ndebug, little_endian, run, ringVars, ctxVars>>

\* two daemons whose peer files list each other, and maybe themselves
InitPair ==
    /\ ndebug \in BOOLEAN
    /\ little_endian = TRUE
    /\ plane = "none"
    /\ RingIdle
    /\ run = "run"
    /\ ctx = init_io_ctx([v4 |-> V4(2), v6 |-> <<>>])
    /\ peer_file = {}
    /\ do_peer_reset = 1
    /\ next_fd = 6
    /\ destroyed = <<>>
    /\ LoopIdle
    /\ \E sa \in SelfArgsA, sb \in SelfArgs, own_a \in BOOLEAN, own_b \in BOOLEAN :
          daemons = [d \in {"A", "B"} |->
                       IF d = "A"
                       THEN Daemon(sa, AddrsOf(sb) \cup (IF own_a THEN AddrsOf(sa) ELSE {}))
                       ELSE Daemon(sb, AddrsOf(sa) \cup (IF own_b THEN AddrsOf(sb) ELSE {}))]

NextPair == PairResetPeers

SpecPair == InitPair /\ [][NextPair]_vars

\* daemon x holds daemon y as a passive peer, under one of y's addresses
holds(x, y) ==
    \E a \in AddrsOf(daemons[y].self) :
        batab_has(daemons[x].ctx.passive_peers, nw_addr_of(a.addr))

\* C4: for two daemons that list each other in their peer files, after both
\* have run the reconciler exactly one of them holds the other as a passive
\* peer, and neither holds an address of its own.
C4_ExactlyOneConnector ==
    (\A d \in DOMAIN daemons : daemons[d].run = "run" /\ daemons[d].do_peer_reset = 0) =>
        /\ holds("A", "B") # holds("B", "A")
        /\ \A d \in DOMAIN daemons : ~holds(d, d)

(* ------------------------- io(), step by step ------------------------- *)
\* the starts of io(): one where every call succeeds, and one for each call
\* that can fail
IoArgs ==
    LET ok == [v4 |-> "10.0.0.2", v6 |-> "null", epoll |-> "ok", tun |-> "ok", lstn |-> "ok"]
    IN  {ok,
         [ok EXCEPT !.v6 = "fd00::2"], [ok EXCEPT !.v4 = "10.0.0"],
         [ok EXCEPT !.v6 = "fd00:::2"], [ok EXCEPT !.v4 = "null"],
         [ok EXCEPT !.epoll = "fail"],
         [ok EXCEPT !.tun = "noblockfail"], [ok EXCEPT !.tun = "epollfail"],
         [ok EXCEPT !.lstn = "bindfail"], [ok EXCEPT !.lstn = "noblockfail"]}

\* the peer files an operator writes
IoPeerFiles ==
    {{}, {[ai_family |-> "AF_INET", addr |-> V4(3)]},
     {[ai_family |-> "AF_INET", addr |-> V4(3)], [ai_family |-> "AF_INET6", addr |-> V6(3)]}}

\* no handler has run yet
NoHandler == [op |-> "none"]

\* io() up to the loop: init_io_ctx, setup_listener, trigger_peer_reset
IoStart ==
    /\ run = "run"
    /\ io_st.pc = "start"
    /\ \E ub \in {"crash", "survive"} :
       \E I \in {init_io_ctx_steps(Ctx(ub), io_st.args)} :
          IF I.null
          THEN /\ io_st' = [io_st EXCEPT !.pc = "teardown", !.ctx_null = TRUE]
               /\ UNCHANGED <<ctx, next_fd, destroyed, run, do_peer_reset>>
          ELSE IF I.K.crashed
          THEN /\ Becomes(I.K)
               /\ UNCHANGED <<io_st, do_peer_reset>>
          ELSE \E L \in {setup_listener(I.K, io_st.args)} :
                  /\ Becomes(L.K)
                  /\ IF L.K.crashed THEN UNCHANGED <<io_st, do_peer_reset>>
                     ELSE IF L.ret # 0
                     THEN /\ io_st' = [io_st EXCEPT !.pc = "teardown"]
                          /\ UNCHANGED do_peer_reset
                     ELSE /\ io_st' = [io_st EXCEPT !.pc = "loop", !.unserved = TRUE,
                                                !.entered = TRUE]
                          /\ do_peer_reset' = 1
    /\ UNCHANGED <<last, pairVars, ndebug, little_endian, ringVars, peer_file>>

\* while ( ! do_stop): into the body, or out of the loop with ret = 0
IoLoopTest ==
    /\ run = "run"
    /\ io_st.pc = "loop"
    /\ io_st' = IF io_st.do_stop = 0
                THEN [io_st EXCEPT !.pc = "wait"]
                ELSE [io_st EXCEPT !.pc = "teardown", !.ret = 0]
    /\ UNCHANGED <<last, pairVars, ndebug, little_endian, ringVars, ctxVars, run>>

\* epoll_wait returns no event: a signal interrupted it
IoWake ==
    /\ run = "run"
    /\ io_st.pc = "wait"
    /\ io_st' = [io_st EXCEPT !.pc = "check"]
    /\ last' = [op |-> "wake"]
    /\ UNCHANGED <<pairVars, ndebug, little_endian, ringVars, ctxVars, run>>

\* epoll_wait returns an event of the listener: one connection is accepted
\* and handed to add_sock, then accept answers EAGAIN
IoAccept ==
    /\ run = "run"
    /\ io_st.pc = "wait"
    /\ next_fd <= MaxFd
    /\ \E i \in 1..Len(ctx.all_sockets) : ctx.all_sockets[i].typ = "lstn"
    /\ \E remote \in InboundAddrs, outcome \in {"ok", "routefail", "epollfail"} :
       \E K \in {do_accept(Ctx("survive"), remote, outcome)} :
          /\ Becomes(K)
          /\ last' = [op |-> "accept", fd |-> next_fd, peer |-> nw_addr_of(remote.addr),
                      outcome |-> outcome]
    /\ io_st' = [io_st EXCEPT !.pc = "check"]
    /\ UNCHANGED <<pairVars, ndebug, little_endian, ringVars, peer_file, do_peer_reset>>

\* epoll_wait returns an event of the listener and the first accept fails
\* with an errno do_accept does not test for
IoAcceptFails ==
    /\ run = "run"
    /\ io_st.pc = "wait"
    /\ \E i \in 1..Len(ctx.all_sockets) : ctx.all_sockets[i].typ = "lstn"
    /\ \E errno \in {"ECONNABORTED", "ENFILE", "ENOMEM"} :
       \E K \in {accept_loop_after_error(Ctx("survive"), errno)} :
          /\ Becomes(K)
          /\ last' = [op |-> "accept", fd |-> -1, peer |-> Zeros(MAX_NW_ADDR_LEN),
                      outcome |-> errno]
    /\ io_st' = [io_st EXCEPT !.pc = "check"]
    /\ UNCHANGED <<pairVars, ndebug, little_endian, ringVars, peer_file, do_peer_reset>>

\* epoll_wait returns an event of a connection; recv answers rcv_end
IoConnIo ==
    /\ run = "run"
    /\ io_st.pc = "wait"
    /\ \E sock \in conn_socks(ctx), rcv_end \in {"EAGAIN", "EOF", "ECONNRESET", "ENOTCONN"} :
       \E K \in {conn_io(Ctx("survive"), sock, Env(0, "EAGAIN", <<>>, rcv_end, 1, "EAGAIN"))} :
          /\ Becomes(K)
          /\ last' = [op |-> "conn_io", fd |-> sock.fd, rcv_end |-> rcv_end]
    /\ io_st' = [io_st EXCEPT !.pc = "check"]
    /\ UNCHANGED <<pairVars, ndebug, little_endian, ringVars, peer_file, do_peer_reset>>

\* what a read of the tun returns in io(): an IPv4 packet for 10.0.0.3, an
\* IPv6 packet
IoTunPkts ==
    {[i \in 1..Len(MkPkt(IPV4_HDR_LEN + 1)) |->
         IF i = IPV4_HDR_LEN THEN 3 ELSE MkPkt(IPV4_HDR_LEN + 1)[i]],
     <<96>> \o Zeros(IPV4_HDR_LEN)}

\* epoll_wait returns an event of the tun: tun_io drains, then reads one
\* packet and hands it on
IoTunIo ==
    /\ run = "run"
    /\ io_st.pc = "wait"
    /\ c_world_tx.drop_p < MaxDrops
    /\ \E i \in 1..Len(ctx.all_sockets) : ctx.all_sockets[i].typ = "tun"
    /\ \E pkt \in IoTunPkts, tail \in {Zeros(MAX_NW_ADDR_LEN - 4), [i \in 1..(MAX_NW_ADDR_LEN - 4) |-> 255]},
          abi \in {"lp64", "ilp32"} :
       \E T \in {tun_io(Ctx("survive"), c_world_tx, pkt, tail, abi,
                          Env(0, "EAGAIN", <<>>, "EAGAIN", 0, "EAGAIN"))} :
          /\ Becomes(T.K)
          /\ c_world_tx' = T.c
          /\ last' = [op |-> "tun_io", pkt |-> pkt, calls |-> T.calls, dest |-> T.dest]
    /\ io_st' = [io_st EXCEPT !.pc = "check"]
    /\ UNCHANGED <<pairVars, ndebug, little_endian, peer_file, do_peer_reset,
                   plane, tx, rx, tun_tx, w_buff, wire, tun_out, enq, bk_in, not_enq, rcvd, freed_use>>

\* if (do_peer_reset): reset_peers is entered and reads the peer file
IoResetTest ==
    /\ run = "run"
    /\ io_st.pc = "check"
    /\ io_st' = IF do_peer_reset = 0
                THEN [io_st EXCEPT !.pc = "loop"]
                ELSE [io_st EXCEPT !.pc = "in_reset", !.file_read = peer_file,
                                   !.unserved = FALSE]
    /\ UNCHANGED <<last, pairVars, ndebug, little_endian, ringVars, ctxVars, run>>

\* reset_peers reconciles against the file it read and returns;
\* do_peer_reset = 0
IoResetPeers ==
    /\ run = "run"
    /\ io_st.pc = "in_reset"
    /\ \E ub \in {"crash", "survive"},
          outcomes \in [(DOMAIN capture_passive_peer(ctx, io_st.file_read))
                           \ (DOMAIN ctx.passive_peers) -> {"ok", "connfail", "routefail"}] :
       \E K \in {reset_peers(Ctx(ub), io_st.file_read, outcomes)} :
          /\ Becomes(K)
          /\ do_peer_reset' = IF K.crashed THEN do_peer_reset ELSE 0
          /\ last' = [op |-> "reset_peers", attempted |-> K.attempted,
                      disconnected |-> {ctx.disconnected_passive_peers[i] :
                                          i \in 1..Len(ctx.disconnected_passive_peers)}]
    /\ io_st' = [io_st EXCEPT !.pc = "loop"]
    /\ UNCHANGED <<pairVars, ndebug, little_endian, ringVars, peer_file>>

\* the orders in which the lines of a peer file can stand
Lines(file) ==
    {l \in [1..Cardinality(file) -> file] : \A i, j \in 1..Cardinality(file) : i # j => l[i] # l[j]}

\* reset_peers runs short of memory: the capture of at least one address of
\* the file it read fails
IoResetPeersNoMem ==
    /\ run = "run"
    /\ io_st.pc = "in_reset"
    /\ \E lines \in Lines(io_st.file_read), nomem \in (SUBSET io_st.file_read) \ {{}} :
       /\ \E r \in nomem : retained(ctx, r)
       /\ \E P \in {parse_peer_file(ctx, lines, nomem,
                                      [tab |-> batab_init, encountered_failure |-> 0])} :
          \E ub \in {"crash", "survive"},
             outcomes \in [(DOMAIN P.tab) \ (DOMAIN ctx.passive_peers) -> {"ok", "connfail"}] :
          \E K \in {reset_peers_parsed(Ctx(ub), P, outcomes)} :
             /\ Becomes(K)
             /\ do_peer_reset' = IF K.crashed THEN do_peer_reset ELSE 0
             /\ last' = [op |-> "reset_peers_nomem", attempted |-> K.attempted,
                         disconnected |-> {ctx.disconnected_passive_peers[i] :
                                             i \in 1..Len(ctx.disconnected_passive_peers)},
                         lines |-> lines, nomem |-> nomem]
    /\ io_st' = [io_st EXCEPT !.pc = "loop"]
    /\ UNCHANGED <<pairVars, ndebug, little_endian, ringVars, peer_file>>

\* a signal handler calls trigger_peer_reset, the peer file rewritten before
IoSignalReload ==
    /\ run = "run"
    /\ io_st.pc \in {"loop", "wait", "check", "in_reset"}
    /\ io_st.reloads < MaxReloads
    /\ peer_file' \in IoPeerFiles
    /\ do_peer_reset' = 1
    /\ io_st' = [io_st EXCEPT !.unserved = TRUE, !.reloads = @ + 1]
    /\ UNCHANGED <<last, pairVars, ndebug, little_endian, ringVars, ctx, next_fd, destroyed, run>>

\* a signal handler calls trigger_io_loop_stop
IoSignalStop ==
    /\ run = "run"
    /\ io_st.pc \in {"loop", "wait", "check", "in_reset"}
    /\ io_st.do_stop = 0
    /\ io_st' = [io_st EXCEPT !.do_stop = 1]
    /\ UNCHANGED <<last, pairVars, ndebug, little_endian, ringVars, ctxVars, run>>

\* destroy_io_ctx(ctx); return ret
IoTeardown ==
    /\ run = "run"
    /\ io_st.pc = "teardown"
    /\ IF io_st.ctx_null
       THEN /\ io_st' = [io_st EXCEPT !.pc = "returned"]
            /\ last' = [op |-> "destroy_io_ctx", socks |-> <<>>]
            /\ UNCHANGED <<ctx, next_fd, destroyed, run>>
       ELSE \E ub \in {"crash", "survive"} :
            \E K \in {destroy_io_ctx(Ctx(ub))} :
               /\ Becomes(K)
               /\ last' = [op |-> "destroy_io_ctx", socks |-> ctx.all_sockets]
               /\ io_st' = IF K.crashed THEN io_st ELSE [io_st EXCEPT !.pc = "returned"]
    /\ UNCHANGED <<pairVars, ndebug, little_endian, ringVars, peer_file, do_peer_reset>>

InitIo ==
    /\ ndebug \in BOOLEAN
    /\ little_endian = TRUE
    /\ plane = "none"
    /\ RingIdle
    /\ run = "run"
    /\ ctx = calloc_io_ctx
    /\ peer_file \in IoPeerFiles
    /\ do_peer_reset = 0
    /\ next_fd = 5
    /\ destroyed = <<>>
    /\ daemons = <<>>
    /\ last = NoHandler
    /\ \E a \in IoArgs :
          io_st = [pc |-> "start", args |-> a, ret |-> -1, do_stop |-> 0, ctx_null |-> FALSE,
                   file_read |-> {}, unserved |-> FALSE, reloads |-> 0, entered |-> FALSE]

NextIo ==
    \/ IoStart \/ IoLoopTest \/ IoWake \/ IoAccept \/ IoAcceptFails \/ IoConnIo \/ IoTunIo \/ IoResetTest
    \/ IoResetPeers \/ IoResetPeersNoMem \/ IoSignalReload \/ IoSignalStop \/ IoTeardown

SpecIo == InitIo /\ [][NextIo]_vars

(* ------------------------- io(): properties --------------------------- *)
\* io() is inside its loop
InLoop == run = "run" /\ io_st.pc \in {"loop", "wait", "check", "in_reset"}

\* C12: a reload requested at any moment, also while reset_peers is running,
\* is served by a reset_peers run that starts after the request: as long as
\* no such run has started, the request is still pending in do_peer_reset.
C12_NoReloadLost == (InLoop /\ io_st.unserved) => do_peer_reset = 1

\* what recv or send answers when the peer is gone: 0 bytes ("EOF"), or one
\* of the three errnos
PeerFatal(answer) == answer \in {"EOF", "ECONNRESET", "ENOTCONN", "EPIPE"}

\* the step is a dispatch of handler op
Dispatched(op) == io_st.pc = "wait" /\ io_st'.pc = "check" /\ last'.op = op

\* the step destroyed the socket with this fd
DestroyedInStep(fd) ==
    /\ Len(destroyed') = Len(destroyed) + 1
    /\ destroyed'[Len(destroyed')].fd = fd

\* C13: a dispatch of conn_io destroys the connection if recv answered 0 bytes
\* or ECONNRESET, ENOTCONN or EPIPE, and does not destroy it on another errno.
C13_FatalErrorDestroysConnection ==
    [][Dispatched("conn_io") => (PeerFatal(last'.rcv_end) <=> DestroyedInStep(last'.fd))]_vars

\* the peer file lists the address
InFile(file, key) == \E r \in file : nw_addr_of(r.addr) = key

\* C14: a reset_peers run that returns has made a connect attempt for every
\* passive peer that was in the disconnected list when it started and that
\* the peer file it read still lists.
C14_DisconnectedPeersAreRetried ==
    [][(io_st.pc = "in_reset" /\ io_st'.pc = "loop" /\ run' = "run") =>
          \A key \in last'.disconnected :
              InFile(io_st.file_read, key) => key \in last'.attempted]_vars

\* one of the steps of the start fails: a self address is not convertible,
\* none is given, the multiplexer cannot be created, the tun socket cannot
\* be installed, no listening socket gets bound and installed
StartFails(a) ==
    \/ a.v4 # "null" /\ inet_pton(a.v4).ret # 1
    \/ a.v6 # "null" /\ inet_pton(a.v6).ret # 1
    \/ a.v4 = "null" /\ a.v6 = "null"
    \/ a.epoll # "ok"
    \/ a.tun # "ok"
    \/ a.lstn # "ok"

\* C17: when a step of the start fails io() does not enter its loop and
\* returns non-zero; it returns 0 only after the loop was entered and left
\* with the stop flag set.
C17_FailedStartNeverLoops ==
    /\ StartFails(io_st.args) =>
          /\ ~io_st.entered
          /\ io_st.pc = "returned" => io_st.ret # 0
    /\ (io_st.pc = "returned" /\ io_st.ret = 0) => (io_st.entered /\ io_st.do_stop = 1)

C19_StopTearsEverythingDown ==
    [][/\ (io_st.do_stop = 1 /\ io_st.pc = "loop") => io_st'.pc # "wait"
       /\ (io_st.pc = "teardown" /\ io_st.ret = 0) =>
             /\ run' = "run"
             /\ ctx'.all_sockets = <<>>
             /\ Len(destroyed') = Len(destroyed) + Len(ctx.all_sockets)
             /\ \A i \in (Len(destroyed) + 1)..Len(destroyed') : destroyed'[i].closes = 1]_vars

\* the connections whose peer address is the destination of the packet
ConnsFor(c, pkt) ==
    {sock \in conn_socks(c) : sock.peer = nw_addr_of(SubSeq(pkt, 17, 20))}

\* C26: a tun event that returns has handed the IPv4 packet it read to
\* write_to_conn once, with the connection whose peer address is the
\* packet's destination (header bytes 16-19), and with no connection only
\* when there is none for that address, counting a drop; a packet of another
\* version is handed to nobody.
C26_PacketGoesToItsPeer ==
    [][(Dispatched("tun_io") /\ run' = "run") =>
          IF last'.pkt[1] \div 16 = 4
          THEN /\ last'.calls = 1
               /\ IF ConnsFor(ctx, last'.pkt) = {}
                  THEN last'.dest = -1 /\ c_world_tx'.drop_p = c_world_tx.drop_p + 1
                  ELSE \E sock \in ConnsFor(ctx, last'.pkt) : last'.dest = sock.fd
          ELSE last'.calls = 0 /\ c_world_tx' = c_world_tx /\ ctx' = ctx]_vars


\* the inbound Connection do_accept installs for the fd and the remote
\* address of the step
Inbound(l) ==
    init_conn_sock(new_sock(l.fd, "conn"), l.peer, "AF_INET")

\* C27: on a listener event the accept loop ends: an accepted fd is
\* installed as exactly one inbound Connection (outbound clear, peer from the
\* remote address) at the head of all_sockets, and when accept fails with an
\* errno other than EAGAIN, EWOULDBLOCK and EMFILE no socket is installed and
\* the handler returns.
C27_AcceptLoopEnds ==
    [][Dispatched("accept") =>
          IF last'.outcome = "ok"
          THEN /\ run' = "run"
               /\ ctx'.all_sockets = <<Inbound(last')>> \o ctx.all_sockets
               /\ ~Inbound(last').outbound
          ELSE IF last'.fd = -1
          THEN run' = "run" /\ ctx'.all_sockets = ctx.all_sockets
          ELSE TRUE]_vars


\* C31: a reset_peers run in which the capture of a resolved address failed
\* applies no removal and no addition, however many later addresses were
\* captured: the passive peers, the live sockets and the disconnected list
\* are after the run what they were before it.
C31_FailedCaptureAppliesNothing ==
    [][(io_st.pc = "in_reset" /\ io_st'.pc = "loop" /\ last'.op = "reset_peers_nomem") =>
          /\ ctx'.passive_peers = ctx.passive_peers
          /\ ctx'.live_sockets = ctx.live_sockets
          /\ ctx'.all_sockets = ctx.all_sockets
          /\ ctx'.disconnected_passive_peers = ctx.disconnected_passive_peers]_vars


\* C32: a PassivePeer is linked into the disconnected list at most once in
\* every reachable state, also after a connect_and_add_passive_peer whose
\* connect succeeded and whose add_sock failed, so that one LIST_REMOVE takes
\* it out of the list completely.
C32_LinkedAtMostOnce ==
    \A i, j \in 1..Len(ctx.disconnected_passive_peers) :
        i # j => ctx.disconnected_passive_peers[i] # ctx.disconnected_passive_peers[j]

====
